---- MODULE Spec2Model ----
(***************************************************************************)
(* Lead generator (src/main.py, GeneradorLeads) and its dashboard          *)
(* (src/dashboard_streamlit.py, DashboardLeads) as a state machine.        *)
(*                                                                         *)
(* Values.  A JSON value sent by the search API, and a cell of a lead, is  *)
(* a record [k, s, n]: k is the Python type ("str", "num", "null", "list", *)
(* "nan"), s the text of a str, n the number of a num in tenths of a star  *)
(* (45 is 4.5) or the length of a list.  A raw business record (negocio)   *)
(* is [k |-> "dict", f |-> <function from the keys present to values>], or *)
(* a value that is no dict.  A file name is the sequence of its characters *)
(* so that glob's matching is computed, not assumed.  The column "Fecha     *)
(* Extracción" of a lead, the time of its extraction, is left out: nothing *)
(* reads it.  Printing is taken not to fail.                               *)
(***************************************************************************)
EXTENDS Integers, Sequences, FiniteSets, TLC

VARIABLES
    pc,          \* position of ejecutar_busqueda_completa: "bucle", "exportar", "fin", "abortado"
    i,           \* index into tipos_negocio of the next category of the for loop
    leads,       \* self.leads
    respuesta,   \* what requests.get produced for the latest request
    solicitudes, \* the categories requested so far, in order (the GETs issued)
    archivos_fs, \* the files of the working directory: a set of [nombre, ctime, filas]
    consola,     \* the outcome line the run printed: "", "guardado", "sin_leads"
    dash,        \* the dashboard process: [estado, credenciales, archivo, df]
    panel        \* the latest run of the dashboard's filters and metrics: [estado, filtro, metricas]

vars == <<pc, i, leads, respuesta, solicitudes, archivos_fs, consola, dash, panel>>

----------------------------------------------------------------------------
(* JSON and Python values *)

Str(s) == [k |-> "str", s |-> s, n |-> 0]
Num(n) == [k |-> "num", s |-> "", n |-> n]
Null == [k |-> "null", s |-> "", n |-> 0]
Lista(n) == [k |-> "list", s |-> "", n |-> n]
NaN == [k |-> "nan", s |-> "", n |-> 0]

\* The sentinel of a missing field.
NoDisponible == Str("No disponible")

ALTA == "ALTA PRIORIDAD"
NORMAL == "Normal"

\* The threshold of _determinar_prioridad, 4.0 stars, in tenths.
UmbralRating == 40

\* ciudad="Madrid", the default of the constructor.
Ciudad == "Madrid"

tipos_negocio == <<"Talleres mecánicos", "Agencias de seguros", "Clínicas">>

\* Python's truth value of a value (the test "if rating_str").
Truthy(v) ==
    CASE v.k = "str" -> v.s # ""
      [] v.k = "num" -> v.n # 0
      [] v.k = "list" -> v.n > 0
      [] v.k = "nan" -> TRUE
      [] OTHER -> FALSE

\* Python's float() on the texts the model uses; any other text is a ValueError.
FloatLiteral ==
    ("0" :> Num(0)) @@ ("0.0" :> Num(0)) @@ ("3.2" :> Num(32)) @@ ("4.0" :> Num(40))
    @@ ("4.5" :> Num(45)) @@ ("4.8" :> Num(48)) @@ ("nan" :> NaN)

\* float(v): [exc, val]; exc is "" when the conversion succeeds.
float(v) ==
    CASE v.k = "num" -> [exc |-> "", val |-> v]
      [] v.k = "nan" -> [exc |-> "", val |-> v]
      [] v.k = "str" -> IF v.s \in DOMAIN FloatLiteral
                        THEN [exc |-> "", val |-> FloatLiteral[v.s]]
                        ELSE [exc |-> "ValueError", val |-> Num(0)]
      [] OTHER -> [exc |-> "TypeError", val |-> Num(0)]

\* a < b on floats: false whenever either side is NaN.
Menor(a, b) == a.k = "num" /\ b.k = "num" /\ a.n < b.n

\* dict.get(key, default)
Get(d, key, default) == IF key \in DOMAIN d THEN d[key] ELSE default

----------------------------------------------------------------------------
(* GeneradorLeads *)

\* The rule with "and" in place of "or".
_determinar_prioridad_y(rating, sitio_web) ==
    IF Menor(rating, Num(UmbralRating)) /\ sitio_web = NoDisponible
    THEN ALTA
    ELSE NORMAL

_determinar_prioridad(rating, sitio_web) ==
    IF Menor(rating, Num(UmbralRating)) \/ sitio_web = NoDisponible
    THEN ALTA
    ELSE NORMAL

SinLead == [Nombre |-> Null, Direccion |-> Null, Telefono |-> Null,
            Calificacion |-> Num(0), SitioWeb |-> Null, TipoNegocio |-> "",
            Prioridad |-> "", Ciudad |-> ""]

\* The rating of a dict record (lines 83-87): [exc, val].  A ValueError of
\* float() is caught there; any other exception leaves the inner try.
calificacion(d) ==
    LET rating_str == Get(d, "rating", Str("0"))
        conv == float(rating_str)
    IN  IF ~Truthy(rating_str) THEN [exc |-> "", val |-> Num(0)]
        ELSE IF conv.exc = "ValueError" THEN [exc |-> "", val |-> Num(0)]
        ELSE conv

\* The body of the try of _procesar_resultados for one negocio: [exc, lead].
\* negocio.get on a value that is no dict raises AttributeError.
extraer(negocio, tipo_negocio) ==
    IF negocio.k # "dict" THEN [exc |-> "AttributeError", lead |-> SinLead]
    ELSE
    LET d == negocio.f
        nombre == Get(d, "title", NoDisponible)
        direccion == Get(d, "address", NoDisponible)
        tel == Get(d, "phone", NoDisponible)
        telefono == IF tel = NoDisponible THEN Get(d, "phone_number", NoDisponible) ELSE tel
        rating == calificacion(d)
        sitio_web == Get(d, "website", NoDisponible)
    IN  IF rating.exc # "" THEN [exc |-> rating.exc, lead |-> SinLead]
        ELSE [exc |-> "",
              lead |-> [Nombre |-> nombre, Direccion |-> direccion,
                        Telefono |-> telefono, Calificacion |-> rating.val,
                        SitioWeb |-> sitio_web, TipoNegocio |-> tipo_negocio,
                        Prioridad |-> _determinar_prioridad(rating.val, sitio_web),
                        Ciudad |-> Ciudad]]

\* What one iteration of the for loop leaves in the list: the except of line
\* 111 catches every Exception of the body and continues.
iteracion(ls, r) == IF r.exc = "" THEN Append(ls, r.lead) ELSE ls

\* The loop with the try around it: the first failing record ends it.
RECURSIVE _procesar_resultados_try_fuera(_, _, _)
_procesar_resultados_try_fuera(ls, resultados, tipo_negocio) ==
    IF resultados = <<>> THEN ls
    ELSE IF extraer(Head(resultados), tipo_negocio).exc # "" THEN ls
    ELSE _procesar_resultados_try_fuera(
             Append(ls, extraer(Head(resultados), tipo_negocio).lead),
             Tail(resultados), tipo_negocio)

RECURSIVE _procesar_resultados(_, _, _)
_procesar_resultados(ls, resultados, tipo_negocio) ==
    IF resultados = <<>> THEN ls
    ELSE _procesar_resultados(iteracion(ls, extraer(Head(resultados), tipo_negocio)),
                              Tail(resultados), tipo_negocio)

----------------------------------------------------------------------------
(* The HTTP exchange of buscar_negocios *)

\* What requests.get, raise_for_status and respuesta.json() produce:
\* estado "ok" is a 2xx answer, "ConnectionError" a network error or timeout,
\* "HTTPError" a non-2xx answer; cuerpo tells the body of a 2xx answer:
\* "no_json" does not decode, "sin_local_results" is a JSON object without
\* the key, "local_results_null" has the key with null, "local_results" has
\* the key with the list local_results.
Resp(estado, cuerpo, local_results) ==
    [estado |-> estado, cuerpo |-> cuerpo, local_results |-> local_results]

SinRespuesta == Resp("", "", <<>>)

\* The exception raised inside the try of buscar_negocios, "" when none is.
\* Iterating over null (for negocio in None) is a TypeError.
excepcion(resp) ==
    CASE resp.estado = "ConnectionError" -> "ConnectionError"
      [] resp.estado = "HTTPError" -> "HTTPError"
      [] resp.cuerpo = "no_json" -> "JSONDecodeError"
      [] resp.cuerpo = "local_results_null" -> "TypeError"
      [] OTHER -> ""

\* The except clauses of lines 56-61: RequestException, JSONDecodeError, Exception.
\* The handlers without the last one, "except Exception".
capturada_sin_except_general(e) ==
    \/ e \in {"ConnectionError", "HTTPError"}
    \/ e = "JSONDecodeError"

capturada(e) ==
    \/ e \in {"ConnectionError", "HTTPError"}
    \/ e = "JSONDecodeError"
    \/ TRUE

\* buscar_negocios on the list ls: [exc, leads]; exc is the exception that
\* leaves the method, "" when it returns normally.
buscar_negocios(ls, tipo_negocio, resp) ==
    LET e == excepcion(resp)
    IN  IF e # "" THEN [exc |-> IF capturada(e) THEN "" ELSE e, leads |-> ls]
        ELSE IF resp.cuerpo = "local_results"
             THEN [exc |-> "",
                   leads |-> _procesar_resultados(ls, resp.local_results, tipo_negocio)]
             ELSE [exc |-> "", leads |-> ls]

----------------------------------------------------------------------------
(* pandas: sort_values, to_csv, read_csv *)

Prioridad_Orden(lead) == IF lead.Prioridad = ALTA THEN 0 ELSE 1

\* a sorts strictly before b under by=[Prioridad_Orden, Calificación],
\* ascending=[True, False]; a NaN rating sorts last (na_position="last").
\* The key with the rating ascending.
Antes_rating_ascendente(a, b) ==
    \/ Prioridad_Orden(a) < Prioridad_Orden(b)
    \/ /\ Prioridad_Orden(a) = Prioridad_Orden(b)
       /\ Menor(a.Calificacion, b.Calificacion)

Antes(a, b) ==
    \/ Prioridad_Orden(a) < Prioridad_Orden(b)
    \/ /\ Prioridad_Orden(a) = Prioridad_Orden(b)
       /\ \/ Menor(b.Calificacion, a.Calificacion)
          \/ a.Calificacion.k = "num" /\ b.Calificacion.k = "nan"

RECURSIVE Insertar(_, _)
Insertar(s, x) ==
    IF s = <<>> THEN <<x>>
    ELSE IF Antes(x, Head(s)) THEN <<x>> \o s
    ELSE <<Head(s)>> \o Insertar(Tail(s), x)

\* df.sort_values on several columns is a stable sort: rows of equal key
\* keep their order.
RECURSIVE sort_values(_)
sort_values(s) ==
    IF s = <<>> THEN <<>>
    ELSE Insertar(sort_values(SubSeq(s, 1, Len(s) - 1)), s[Len(s)])

\* The text of a float in a CSV file.
FloatRepr ==
    (0 :> "0.0") @@ (32 :> "3.2") @@ (40 :> "4.0") @@ (45 :> "4.5") @@ (48 :> "4.8")

\* The text to_csv writes for a cell: None and NaN become the empty field.
celda(v) ==
    CASE v.k = "str" -> v.s
      [] v.k = "num" -> FloatRepr[v.n]
      [] v.k = "list" -> "[...]"
      [] OTHER -> ""

fila_csv(lead) ==
    [Nombre |-> celda(lead.Nombre), Direccion |-> celda(lead.Direccion),
     Telefono |-> celda(lead.Telefono), Calificacion |-> celda(lead.Calificacion),
     SitioWeb |-> celda(lead.SitioWeb), TipoNegocio |-> lead.TipoNegocio,
     Prioridad |-> lead.Prioridad, Ciudad |-> lead.Ciudad]

to_csv(df) == [j \in 1..Len(df) |-> fila_csv(df[j])]

----------------------------------------------------------------------------
(* The working directory *)

CsvCompleto == <<"c", "l", "i", "e", "n", "t", "e", "s", "_", "p", "o", "t", "e", "n", "c", "i", "a", "l", "e", "s", ".", "c", "s", "v">>
CsvAlta == <<"c", "l", "i", "e", "n", "t", "e", "s", "_", "a", "l", "t", "a", "_", "p", "r", "i", "o", "r", "i", "d", "a", "d", ".", "c", "s", "v">>
CsvAntiguo == <<"c", "l", "i", "e", "n", "t", "e", "s", "_", "p", "o", "t", "e", "n", "c", "i", "a", "l", "e", "s", "_", "1", ".", "c", "s", "v">>
PatronDashboard == <<"c", "l", "i", "e", "n", "t", "e", "s", "_", "p", "o", "t", "e", "n", "c", "i", "a", "l", "e", "s", "_", "*", ".", "c", "s", "v">>

Reloj(fs) == IF fs = {} THEN 0 ELSE CHOOSE t \in {f.ctime : f \in fs} : \A f \in fs : f.ctime <= t

\* Writing a file replaces the one of that name; its ctime is the latest.
Escribir(fs, nombre, filas) ==
    {f \in fs : f.nombre # nombre}
      \cup {[nombre |-> nombre, ctime |-> Reloj(fs) + 1, filas |-> filas]}

guardar_csv(fs, ls, filename) ==
    IF ls = <<>> THEN fs
    ELSE Escribir(fs, filename, to_csv(sort_values(ls)))

----------------------------------------------------------------------------
(* DashboardLeads *)

\* fnmatch of a name against a pattern; "*" matches any run of characters.
RECURSIVE Coincide(_, _)
Coincide(patron, nombre) ==
    IF patron = <<>> THEN nombre = <<>>
    ELSE IF Head(patron) = "*"
         THEN \/ Coincide(Tail(patron), nombre)
              \/ nombre # <<>> /\ Coincide(patron, Tail(nombre))
         ELSE /\ nombre # <<>>
              /\ Head(nombre) = Head(patron)
              /\ Coincide(Tail(patron), Tail(nombre))

\* archivos = glob.glob("clientes_potenciales_*.csv"), evaluated when the
\* dashboard script starts.
archivos(fs) == {f \in fs : Coincide(PatronDashboard, f.nombre)}

\* max(archivos, key=os.path.getctime)
archivo_mas_reciente(fs) ==
    CHOOSE f \in archivos(fs) : \A g \in archivos(fs) : g.ctime <= f.ctime

\* pd.read_csv: an empty field is NaN; the rating column is numeric when
\* every field of it is a number or empty, text otherwise.
columna_numerica(filas) ==
    \A j \in 1..Len(filas) : filas[j].Calificacion \in DOMAIN FloatLiteral \cup {""}

leer_texto(t) == IF t = "" THEN NaN ELSE Str(t)

leer_numero(filas, t) ==
    IF t = "" THEN NaN
    ELSE IF columna_numerica(filas) THEN FloatLiteral[t] ELSE Str(t)

read_csv(filas) ==
    [j \in 1..Len(filas) |->
        [Nombre |-> leer_texto(filas[j].Nombre),
         Direccion |-> leer_texto(filas[j].Direccion),
         Telefono |-> leer_texto(filas[j].Telefono),
         Calificacion |-> leer_numero(filas, filas[j].Calificacion),
         SitioWeb |-> leer_texto(filas[j].SitioWeb),
         TipoNegocio |-> leer_texto(filas[j].TipoNegocio),
         Prioridad |-> leer_texto(filas[j].Prioridad),
         Ciudad |-> leer_texto(filas[j].Ciudad)]]

SinArchivo == <<>>

DashNoIniciado ==
    [estado |-> "no", credenciales |-> FALSE, archivo |-> SinArchivo, df |-> <<>>]

\* cargar_datos: with a table, the records of the table; otherwise the most
\* recent file of archivos, or FileNotFoundError when there is none.
cargar_datos(fs, credenciales, tabla) ==
    IF credenciales
    THEN [estado |-> "cargado", credenciales |-> TRUE, archivo |-> SinArchivo, df |-> tabla]
    ELSE IF archivos(fs) = {}
         THEN [estado |-> "FileNotFoundError", credenciales |-> FALSE,
               archivo |-> SinArchivo, df |-> <<>>]
         ELSE [estado |-> "cargado", credenciales |-> FALSE,
               archivo |-> archivo_mas_reciente(fs).nombre,
               df |-> read_csv(archivo_mas_reciente(fs).filas)]

\* a >= n and a <= n on a column cell and a number: false on NaN.
MayorIgual(a, n) == a.k = "num" /\ a.n >= n
MenorIgual(a, n) == a.k = "num" /\ a.n <= n

\* df[column].unique()
unique(df, columna) == {df[j][columna] : j \in 1..Len(df)}

\* The selection of the sidebar: the chosen categories, the chosen
\* priorities and the two ends of the rating slider, in tenths.
Filtro(tipo_negocio, prioridad, rating_min, rating_max) ==
    [tipo_negocio |-> tipo_negocio, prioridad |-> prioridad,
     rating_min |-> rating_min, rating_max |-> rating_max]

\* df_filtrado of lines 160-165.
df_filtrado(df, filtro) ==
    SelectSeq(df, LAMBDA fila :
        /\ fila.TipoNegocio \in filtro.tipo_negocio
        /\ fila.Prioridad \in filtro.prioridad
        /\ MayorIgual(fila.Calificacion, filtro.rating_min)
        /\ MenorIgual(fila.Calificacion, filtro.rating_max))

SinMetricas ==
    [exc |-> "", total_leads |-> 0, alta_prioridad |-> 0, sin_web |-> 0,
     rating_bajo |-> 0, tasa_conversion_estimada |-> 0, valor_potencial_total |-> 0]

\* calcular_metricas_clave: the rate of line 56 divides by len(df), a
\* ZeroDivisionError on an empty table; the rate is kept in tenths of a
\* percent, rounded as "{:.1f}" rounds.
calcular_metricas_clave(df) ==
    LET total == Len(df)
        alta == Cardinality({j \in 1..Len(df) : df[j].Prioridad = Str(ALTA)})
    IN  IF total = 0
        THEN [SinMetricas EXCEPT !.exc = "ZeroDivisionError"]
        ELSE [exc |-> "",
              total_leads |-> total,
              alta_prioridad |-> alta,
              sin_web |-> Cardinality({j \in 1..Len(df) : df[j].SitioWeb = NoDisponible}),
              rating_bajo |-> Cardinality({j \in 1..Len(df) :
                                 Menor(df[j].Calificacion, Num(UmbralRating))}),
              tasa_conversion_estimada |-> (alta * 2000 + total) \div (2 * total),
              valor_potencial_total |-> total * 2500]

PanelNoIniciado ==
    [estado |-> "no", filtro |-> Filtro({}, {}, 0, 0), metricas |-> SinMetricas]

\* The numbers of the rating column.
Calificaciones(df) ==
    {df[j].Calificacion.n : j \in {m \in 1..Len(df) : df[m].Calificacion.k = "num"}}

\* What the sidebar lets the user choose on the table df: any of the
\* categories and of the priorities of the table, none included, and a range
\* of the slider, whose ends are taken among the ratings of the table and the
\* ends 0.0 and 5.0 of its initial value.
Selecciones(df) ==
    {f \in {Filtro(t, p, a, b) :
                t \in SUBSET unique(df, "TipoNegocio"),
                p \in SUBSET unique(df, "Prioridad"),
                a \in Calificaciones(df) \cup {0, 50},
                b \in Calificaciones(df) \cup {0, 50}} :
        f.rating_min <= f.rating_max}

\* Lines 133-172 of main for one selection: the filters, then the metrics;
\* an exception of calcular_metricas_clave ends the script run.
panel_de(df, filtro) ==
    LET m == calcular_metricas_clave(df_filtrado(df, filtro))
    IN  [estado |-> IF m.exc = "" THEN "metricas" ELSE m.exc,
         filtro |-> filtro, metricas |-> m]

----------------------------------------------------------------------------
(* Inputs *)

\* The longest local_results list of a response of the run.
MaxResults == 2

\* The longest local_results list of a single call examined on its own.
MaxLote == 3

Url == Str("https://a.example")

\* A dict with the keys whose value is given: Ausente marks a key left out.
Ausente == [k |-> "absent", s |-> "", n |-> 0]

Dict(t, a, p, pn, r, w) ==
    LET todo == [title |-> t, address |-> a, phone |-> p, phone_number |-> pn,
                 rating |-> r, website |-> w]
        presentes == {c \in DOMAIN todo : todo[c] # Ausente}
    IN  [k |-> "dict", f |-> [c \in presentes |-> todo[c]]]

\* A local_results entry that is no JSON object.
NoDict == [k |-> "str", f |-> <<>>]

\* The businesses of the run's responses: a well-rated one with a site, a
\* badly rated one with a site, a well-rated one without a site, and an entry
\* that cannot be extracted.
NegocioA == Dict(Str("Taller A"), Str("Calle 1"), Str("911"), Ausente, Str("4.5"), Url)
NegocioB == Dict(Str("Seguros B"), Ausente, Ausente, Str("912"), Str("3.2"), Url)
NegocioC == Dict(Str("Clinica C"), Str("Calle 3"), Ausente, Ausente, Num(48), Ausente)
NegociosRun == {NegocioA, NegocioB, NegocioC, NoDict}

\* Every combination of present, absent and odd values of the six keys.
Titulos == {Ausente, Null, Str("Taller A")}
Direcciones == {Ausente, Null, Str("Calle 1")}
Telefonos == {Ausente, Str("911")}
Telefonos2 == {Ausente, Str("912")}
Ratings == {Ausente, Null, Str(""), Str("abc"), Str("nan"), Str("3.2"), Str("4.0"),
            Str("4.5"), Num(0), Num(32), Num(48), Lista(0), Lista(1)}
Webs == {Ausente, Null, Url, NoDisponible}
NegociosTodos ==
    {Dict(t, a, p, pn, r, w) : t \in Titulos, a \in Direcciones, p \in Telefonos,
                               pn \in Telefonos2, r \in Ratings, w \in Webs}
      \cup {NoDict}

SeqHasta(S, n) == UNION {[1..m -> S] : m \in 0..n}

Fallos ==
    {Resp("ConnectionError", "", <<>>), Resp("HTTPError", "", <<>>),
     Resp("ok", "no_json", <<>>), Resp("ok", "sin_local_results", <<>>),
     Resp("ok", "local_results_null", <<>>)}

Respuestas ==
    Fallos \cup {Resp("ok", "local_results", rs) : rs \in SeqHasta(NegociosRun, MaxResults)}

\* Responses of a call examined on its own: lists up to MaxLote of the run's
\* businesses and of one with a list for rating, and every single business.
NegocioL == Dict(Str("Taller L"), Ausente, Ausente, Ausente, Lista(1), Url)

RespuestasLlamada ==
    Fallos
      \cup {Resp("ok", "local_results", rs) : rs \in SeqHasta(NegociosRun \cup {NegocioL}, MaxLote)}
      \cup {Resp("ok", "local_results", <<r>>) : r \in NegociosTodos}

\* Responses of one record at most.
RespuestasBreves ==
    Fallos \cup {Resp("ok", "local_results", rs) : rs \in SeqHasta(NegociosRun, 1)}

\* What an earlier run left in its files.
FilasAntiguas ==
    to_csv(sort_values(_procesar_resultados(<<>>, <<NegocioA, NegocioB>>, tipos_negocio[1])))

FilasAltaAntiguas ==
    to_csv(_procesar_resultados(<<>>, <<NegocioB>>, tipos_negocio[1]))

Archivo(nombre, filas) == [nombre |-> nombre, ctime |-> 0, filas |-> filas]

\* The directory of a first run, and the directory an earlier run wrote to.
DirectorioVacio == {}
DirectorioUsado == {Archivo(CsvCompleto, FilasAntiguas), Archivo(CsvAlta, FilasAltaAntiguas)}

\* A directory in which someone put a file of the dashboard's pattern: the
\* generator never writes a name of that pattern.
DirectorioConCopia == {Archivo(CsvAntiguo, FilasAntiguas)}

\* The records of the remote table when credentials are configured.
TablasRemotas == {<<>>, read_csv(FilasAntiguas)}

\* Tables for the dashboard on its own: the file of an earlier run, and a
\* table of two categories whose ratings reach both ends of the slider.
FilaTabla(nombre, tipo, rating, sitio_web) ==
    [Nombre |-> Str(nombre), Direccion |-> NoDisponible, Telefono |-> NoDisponible,
     Calificacion |-> Num(rating), SitioWeb |-> sitio_web, TipoNegocio |-> Str(tipo),
     Prioridad |-> Str(_determinar_prioridad(Num(rating), sitio_web)),
     Ciudad |-> Str(Ciudad)]

TablaAmplia ==
    <<FilaTabla("Taller D", tipos_negocio[1], 0, NoDisponible),
      FilaTabla("Clinica E", tipos_negocio[3], 50, Url)>>

TablasPanel == {<<>>, read_csv(FilasAntiguas), TablaAmplia}

----------------------------------------------------------------------------
(* The run: ejecutar_busqueda_completa *)

InitEn(directorios) ==
    /\ pc = "bucle"
    /\ i = 1
    /\ leads = <<>>
    /\ respuesta = SinRespuesta
    /\ solicitudes = <<>>
    /\ archivos_fs \in directorios
    /\ consola = ""
    /\ dash = DashNoIniciado
    /\ panel = PanelNoIniciado

\* The run starts in a directory that holds the files of an earlier run, so
\* that a file it writes replaces one and a file it does not write stays.
Init == InitEn({DirectorioUsado})

\* The loop left at the first category that adds no lead.
Buscar_break(R) ==
    /\ pc = "bucle"
    /\ i <= Len(tipos_negocio)
    /\ \E resp \in R :
         LET r == buscar_negocios(leads, tipos_negocio[i], resp)
         IN  /\ respuesta' = resp
             /\ solicitudes' = Append(solicitudes, tipos_negocio[i])
             /\ leads' = r.leads
             /\ i' = i + 1
             /\ pc' = IF i = Len(tipos_negocio) \/ r.leads = leads
                      THEN "exportar" ELSE "bucle"
    /\ UNCHANGED <<archivos_fs, consola, dash, panel>>

\* One iteration of the for loop of lines 174-176, the API answering with a
\* response of R: the request, the processing of its answer, the pause.
Buscar(R) ==
    /\ pc = "bucle"
    /\ i <= Len(tipos_negocio)
    /\ \E resp \in R :
         LET r == buscar_negocios(leads, tipos_negocio[i], resp)
         IN  /\ respuesta' = resp
             /\ solicitudes' = Append(solicitudes, tipos_negocio[i])
             /\ leads' = r.leads
             /\ IF r.exc # ""
                THEN pc' = "abortado" /\ i' = i
                ELSE /\ i' = i + 1
                     /\ pc' = IF i = Len(tipos_negocio) THEN "exportar" ELSE "bucle"
    /\ UNCHANGED <<archivos_fs, consola, dash, panel>>

\* The test of line 178 left out.
hay_leads_siempre(ls) == TRUE

\* "if self.leads" of line 178.
hay_leads(ls) == ls # <<>>

\* The selection of line 183 left out.
alta_prioridad_todos(ls) == ls

\* df[df["Prioridad"] == "ALTA PRIORIDAD"]
alta_prioridad(ls) == SelectSeq(ls, LAMBDA l : l.Prioridad = ALTA)

\* Lines 178-188 on the directory fs: both files, or nothing written.
exportar(fs, ls) ==
    IF hay_leads(ls)
    THEN LET fs1 == guardar_csv(fs, ls, CsvCompleto)
         IN  IF alta_prioridad(ls) # <<>>
             THEN Escribir(fs1, CsvAlta, to_csv(alta_prioridad(ls)))
             ELSE fs1
    ELSE fs

\* respuesta is local to buscar_negocios: it is gone once the loop has ended.
Exportar ==
    /\ pc = "exportar"
    /\ archivos_fs' = exportar(archivos_fs, leads)
    /\ consola' = IF hay_leads(leads) THEN "guardado" ELSE "sin_leads"
    /\ pc' = "fin"
    /\ respuesta' = SinRespuesta
    /\ UNCHANGED <<i, leads, solicitudes, dash, panel>>

Next == Buscar(Respuestas) \/ Exportar

Spec == Init /\ [][Next]_vars

----------------------------------------------------------------------------
(* The run followed by the dashboard *)

InitTablero == InitEn({DirectorioVacio, DirectorioUsado, DirectorioConCopia})

\* The dashboard script, started once the collector has ended: the glob of
\* line 12, DashboardLeads() and cargar_datos.
Dashboard ==
    /\ pc = "fin"
    /\ dash.estado = "no"
    /\ \E credenciales \in BOOLEAN, tabla \in TablasRemotas :
         dash' = cargar_datos(archivos_fs, credenciales, tabla)
    /\ UNCHANGED <<pc, i, leads, respuesta, solicitudes, archivos_fs, consola, panel>>

NextTablero == Buscar(RespuestasBreves) \/ Exportar \/ Dashboard

\* The run is one thread that nothing blocks for ever: every request ends
\* (timeout=30) and so does the pause.
FairSpec ==
    /\ InitTablero
    /\ [][NextTablero]_vars
    /\ WF_vars(Buscar(RespuestasBreves))
    /\ WF_vars(Exportar)

----------------------------------------------------------------------------
(* The dashboard on its own, the collector having ended *)

InitPanel ==
    /\ pc = "fin"
    /\ i = Len(tipos_negocio) + 1
    /\ leads = <<>>
    /\ respuesta = SinRespuesta
    /\ solicitudes = tipos_negocio
    /\ archivos_fs \in {DirectorioUsado, DirectorioConCopia}
    /\ consola = "sin_leads"
    /\ dash = DashNoIniciado
    /\ panel = PanelNoIniciado

\* The script started: the glob of line 12, DashboardLeads() and cargar_datos.
Cargar ==
    /\ dash.estado = "no"
    /\ \E credenciales \in BOOLEAN, tabla \in TablasPanel :
         dash' = cargar_datos(archivos_fs, credenciales, tabla)
    /\ UNCHANGED <<pc, i, leads, respuesta, solicitudes, archivos_fs, consola, panel>>

\* One run of the script on a loaded table that is not empty (line 133
\* returns on an empty one) with the selection the user has made.
Filtrar ==
    /\ dash.estado = "cargado"
    /\ dash.df # <<>>
    /\ \E filtro \in Selecciones(dash.df) : panel' = panel_de(dash.df, filtro)
    /\ UNCHANGED <<pc, i, leads, respuesta, solicitudes, archivos_fs, consola, dash>>

NextPanel == Cargar \/ Filtrar

SpecPanel == InitPanel /\ [][NextPanel]_vars

----------------------------------------------------------------------------
(* One call of buscar_negocios on a generator that holds earlier leads *)

LeadsPrevios == {<<>>, _procesar_resultados(<<>>, <<NegocioA>>, tipos_negocio[1])}

InitLlamada ==
    /\ pc = "llamada"
    /\ i = 1
    /\ leads \in LeadsPrevios
    /\ respuesta = SinRespuesta
    /\ solicitudes = <<>>
    /\ archivos_fs = {}
    /\ consola = ""
    /\ dash = DashNoIniciado
    /\ panel = PanelNoIniciado

Llamada ==
    /\ pc = "llamada"
    /\ \E j \in 1..Len(tipos_negocio), resp \in RespuestasLlamada :
         LET r == buscar_negocios(leads, tipos_negocio[j], resp)
         IN  /\ respuesta' = resp
             /\ solicitudes' = Append(solicitudes, tipos_negocio[j])
             /\ leads' = r.leads
             /\ pc' = IF r.exc # "" THEN "abortado" ELSE "retorno"
    /\ UNCHANGED <<i, archivos_fs, consola, dash, panel>>

NextLlamada == Llamada

SpecLlamada == InitLlamada /\ [][NextLlamada]_vars

----------------------------------------------------------------------------
(* Properties *)

Ultimo(s) == s[Len(s)]

\* rating < 4.0 or website == sentinel, on the values of a lead.
RatingBajoOSinWeb(rating, sitio_web) ==
    (rating.k = "num" /\ rating.n < 40) \/ sitio_web = NoDisponible

FloatsRating == {Num(n) : n \in 0..50} \cup {NaN}
SitiosWeb == {NoDisponible, Url, Null, Str("")}

\* C1: _determinar_prioridad returns ALTA PRIORIDAD exactly when the rating is
\* below 4.0 or the website is the sentinel, and Normal otherwise; so does the
\* Prioridad of every lead of the list after a call of buscar_negocios.
C1_PrioridadSiiRatingBajoOSinWeb ==
    /\ \A r \in FloatsRating, w \in SitiosWeb :
         _determinar_prioridad(r, w) = IF RatingBajoOSinWeb(r, w) THEN ALTA ELSE NORMAL
    /\ \A j \in 1..Len(leads) :
         leads[j].Prioridad =
            IF RatingBajoOSinWeb(leads[j].Calificacion, leads[j].SitioWeb)
            THEN ALTA ELSE NORMAL

\* A call has returned and the list holds a lead of high priority only for
\* its missing website, one only for its rating, and a normal one.
C1_Witness ==
    /\ pc = "retorno"
    /\ \E a, b, c \in 1..Len(leads) :
         /\ leads[a].Prioridad = ALTA /\ leads[a].Calificacion.n >= 40
            /\ leads[a].SitioWeb = NoDisponible
         /\ leads[b].Prioridad = ALTA /\ leads[b].Calificacion.n < 40
            /\ leads[b].SitioWeb = Url
         /\ leads[c].Prioridad = NORMAL

\* The request of a category failed: a network error, a non-2xx answer, a
\* body that is no JSON, or another exception (local_results is null).
SolicitudFallida(resp) ==
    \/ resp.estado \in {"ConnectionError", "HTTPError"}
    \/ resp.estado = "ok" /\ resp.cuerpo \in {"no_json", "local_results_null"}

\* C2: when the request of a category fails, buscar_negocios returns without
\* raising, the list of leads is what it was before the call, and the loop
\* moves on to the next category (to the export after the last one).
C2_FalloDeSolicitudNoCambiaLeads ==
    [][(pc = "bucle" /\ solicitudes' # solicitudes /\ SolicitudFallida(respuesta'))
         => /\ leads' = leads
            /\ pc' # "abortado"
            /\ i' = i + 1
            /\ pc' = IF i < 3 THEN "bucle" ELSE "exportar"]_vars

\* The second category failed after the first one gave leads, and the loop
\* is about to request the third.
C2_Witness ==
    /\ pc = "bucle" /\ i = 3
    /\ SolicitudFallida(respuesta)
    /\ leads # <<>>

\* The leads of the records of rs that can be extracted, in the order of rs.
Extraibles(rs, tipo) == SelectSeq(rs, LAMBDA r : extraer(r, tipo).exc = "")
LeadsDe(rs, tipo) ==
    [j \in 1..Len(Extraibles(rs, tipo)) |-> extraer(Extraibles(rs, tipo)[j], tipo).lead]

\* C3: a record whose extraction fails adds no lead and stops nothing: the
\* call appends to the earlier leads the leads of all the other records of the
\* response, in the order of the response.
C3_RegistroFallidoSeOmite ==
    [][(pc = "llamada" /\ respuesta'.cuerpo = "local_results")
         => leads' = leads \o LeadsDe(respuesta'.local_results, Ultimo(solicitudes'))]_vars

\* A response of three records, the middle one failing, processed on a list
\* that held a lead: the lead is kept and the two other records follow it.
C3_Witness ==
    /\ pc = "retorno"
    /\ Len(respuesta.local_results) = 3
    /\ extraer(respuesta.local_results[1], Ultimo(solicitudes)).exc = ""
    /\ extraer(respuesta.local_results[2], Ultimo(solicitudes)).exc # ""
    /\ extraer(respuesta.local_results[3], Ultimo(solicitudes)).exc = ""
    /\ Len(leads) = 3
    /\ leads[1] \in {Ultimo(l) : l \in LeadsPrevios \ {<<>>}}

\* The rating of a dict record is absent or invalid: no key, null, a list,
\* or a text that is no number.
RatingAusenteOInvalido(negocio) ==
    /\ negocio.k = "dict"
    /\ \/ "rating" \notin DOMAIN negocio.f
       \/ negocio.f.rating.k \in {"null", "list"}
       \/ negocio.f.rating.k = "str" /\ negocio.f.rating.s \notin DOMAIN FloatLiteral

\* C4: a record whose rating is absent or invalid is extracted without an
\* exception into a lead of rating 0.0; it is not dropped.
C4_RatingInvalidoDaCero ==
    [][(/\ pc = "llamada"
        /\ respuesta'.cuerpo = "local_results"
        /\ Len(respuesta'.local_results) = 1
        /\ RatingAusenteOInvalido(respuesta'.local_results[1]))
         => /\ Len(leads') = Len(leads) + 1
            /\ Ultimo(leads').Calificacion = Num(0)]_vars

\* C9: name, address and website of every lead are a text of the record or
\* the sentinel; the website of a lead is a URL text or the sentinel.
C9_CamposTextoOSentinela ==
    \A j \in 1..Len(leads) :
        /\ leads[j].Nombre.k = "str"
        /\ leads[j].Direccion.k = "str"
        /\ leads[j].SitioWeb.k = "str"

\* The files the run wrote: the files it found have ctime 0.
Escritos == {f \in archivos_fs : f.ctime > 0}
EscritoCon(nombre) == {f \in Escritos : f.nombre = nombre}

Veces(x, s) == Cardinality({j \in 1..Len(s) : s[j] = x})

\* The rows of filas are the rows of the leads ls, each as often.
MismasFilas(filas, ls) ==
    /\ Len(filas) = Len(ls)
    /\ \A j \in 1..Len(ls) :
         Veces(fila_csv(ls[j]), filas)
           = Cardinality({m \in 1..Len(ls) : fila_csv(ls[m]) = fila_csv(ls[j])})

\* The number a rating field of a CSV row stands for, in tenths.
RatingDeFila(fila) == FloatLiteral[fila.Calificacion].n

OrdenadoPorPrioridadYRating(filas) ==
    \A a, b \in 1..Len(filas) :
        a < b =>
          /\ ~(filas[a].Prioridad = NORMAL /\ filas[b].Prioridad = ALTA)
          /\ filas[a].Prioridad = filas[b].Prioridad
               => RatingDeFila(filas[a]) >= RatingDeFila(filas[b])

\* C5: the full CSV the run wrote holds the collected leads, each once, with
\* every ALTA PRIORIDAD row above every Normal row and, among rows of one
\* priority, ratings that never increase downwards.
C5_CsvCompletoOrdenado ==
    \A f \in EscritoCon(CsvCompleto) :
        /\ MismasFilas(f.filas, leads)
        /\ OrdenadoPorPrioridadYRating(f.filas)

\* The full CSV was written from a list that was in neither order: a Normal
\* lead collected before an ALTA one, and a lower rating before a higher one
\* of the same priority.
C5_Witness ==
    /\ pc = "fin"
    /\ EscritoCon(CsvCompleto) # {}
    /\ \E a, b, c, d \in 1..Len(leads) :
         /\ a < b /\ leads[a].Prioridad = NORMAL /\ leads[b].Prioridad = ALTA
         /\ c < d /\ leads[c].Prioridad = leads[d].Prioridad
         /\ leads[c].Calificacion.n < leads[d].Calificacion.n

\* C6: a run that ends with an empty list has written no file and has
\* reported that no lead was found; a file is written only with a list that
\* is not empty.
C6_SinLeadsNoEscribe ==
    /\ Escritos # {} => leads # <<>>
    /\ (pc = "fin" /\ leads = <<>>) => (Escritos = {} /\ consola = "sin_leads")

\* The run ended without a lead in a directory that holds the files of an
\* earlier run: they are left as they were.
C6_Witness ==
    /\ pc = "fin"
    /\ leads = <<>>
    /\ consola = "sin_leads"
    /\ archivos_fs = DirectorioUsado

LeadsAlta == SelectSeq(leads, LAMBDA l : l.Prioridad = ALTA)

\* C7: when the run has written the full CSV, it has written the
\* high-priority CSV exactly if a collected lead is ALTA PRIORIDAD, and that
\* file holds the ALTA PRIORIDAD leads, each once, and no Normal lead.
C7_CsvAltaSoloAlta ==
    EscritoCon(CsvCompleto) # {} =>
      /\ EscritoCon(CsvAlta) # {} <=> \E j \in 1..Len(leads) : leads[j].Prioridad = ALTA
      /\ \A f \in EscritoCon(CsvAlta) :
           /\ MismasFilas(f.filas, LeadsAlta)
           /\ \A j \in 1..Len(f.filas) : f.filas[j].Prioridad = ALTA

\* Both files were written from a list that holds Normal leads too.
C7_Witness ==
    /\ pc = "fin"
    /\ EscritoCon(CsvCompleto) # {}
    /\ EscritoCon(CsvAlta) # {}
    /\ \E j \in 1..Len(leads) : leads[j].Prioridad = NORMAL

\* C8: without credentials of the remote table, the dashboard started after
\* the run wrote its full CSV loads that file.
C8_DashboardCargaElCsvDelRun ==
    (dash.estado # "no" /\ ~dash.credenciales /\ EscritoCon(CsvCompleto) # {})
      => /\ dash.estado = "cargado"
         /\ dash.archivo = CsvCompleto
         /\ \A f \in EscritoCon(CsvCompleto) : dash.df = read_csv(f.filas)

EsPrefijo(s, t) == Len(s) <= Len(t) /\ \A j \in 1..Len(s) : s[j] = t[j]

C10_Seguridad ==
    /\ pc # "abortado"
    /\ EsPrefijo(solicitudes, tipos_negocio)
    /\ pc = "bucle" => Len(solicitudes) = i - 1
    /\ pc \in {"exportar", "fin"} => solicitudes = tipos_negocio
    /\ pc # "fin" => Escritos = {}

C10_Fin == pc = "fin" /\ consola \in {"guardado", "sin_leads"}

\* C10: the three categories are requested once each, in the configured
\* order, whatever the earlier requests gave; no file is written before the
\* third has been processed; the run reaches its export or its report and ends.
C10_TresCategoriasEnOrdenYTermina == []C10_Seguridad /\ <>C10_Fin

\* All three categories were requested although the last request failed, and
\* the export is about to run on the leads of the earlier ones.
C10_Witness ==
    /\ pc = "exportar"
    /\ solicitudes = tipos_negocio
    /\ SolicitudFallida(respuesta)
    /\ leads # <<>>

\* C11: for every selection of the filters over a loaded table that is not
\* empty, a selection that matches no lead included, calcular_metricas_clave
\* ends without an exception and its counts alta_prioridad, sin_web and
\* rating_bajo are at most total_leads.
C11_MetricasSinExcepcion ==
    panel.estado # "no" =>
      /\ panel.metricas.exc = ""
      /\ panel.estado = "metricas"
      /\ panel.metricas.alta_prioridad <= panel.metricas.total_leads
      /\ panel.metricas.sin_web <= panel.metricas.total_leads
      /\ panel.metricas.rating_bajo <= panel.metricas.total_leads

====
